---- MODULE Spec2Model ----
(***************************************************************************)
(* docs/conf.py of pgcopydb: the Sphinx configuration module.              *)
(*                                                                         *)
(* The module is executed top to bottom, one statement at a time (pc is    *)
(* the statement about to run).  Each assignment binds a name in the       *)
(* module namespace conf; one statement (line 77) assigns an attribute of  *)
(* the class PygmentsBridge, which belongs to the documentation generator  *)
(* and outlives the load.  Once the module is loaded the generator runs    *)
(* one builder, which either highlights code blocks through a formatter    *)
(* built by the bridge (html, latex) or writes the manual pages of the     *)
(* man_pages table (man).                                                  *)
(***************************************************************************)
EXTENDS Integers, Sequences, FiniteSets, TLC

VARIABLES
    pc,              \* the statement of conf.py about to be executed
    conf,            \* the module namespace: name -> value
    PygmentsBridge,  \* class attributes of sphinx.highlighting.PygmentsBridge
    builder,         \* the builder the generator runs after the load
    highlighter,     \* the PygmentsBridge instance of the running builder
    formatter,       \* the formatter instance built for the last code block
    nblocks,         \* code blocks highlighted so far
    man_idx,         \* entries of man_pages processed so far
    outdir           \* manual pages written: file name -> source document

vars == <<pc, conf, PygmentsBridge, builder, highlighter, formatter,
          nblocks, man_idx, outdir>>

\* Code blocks highlighted by one build.
MaxBlocks == 3

(***************************************************************************)
(* Python helpers                                                          *)
(***************************************************************************)

\* name = value in a namespace (a dict): binds or rebinds the name.
Bind(ns, name, value) ==
    [n \in DOMAIN ns \cup {name} |-> IF n = name THEN value ELSE ns[n]]

\* dict.get(key, default)
Get(d, key, default) == IF key \in DOMAIN d THEN d[key] ELSE default

(***************************************************************************)
(* The values assigned by conf.py                                          *)
(***************************************************************************)

project_value == "pgcopydb"
copyright_value == "2022, Dimitri Fontaine"
author_value == "Dimitri Fontaine"
version_value == "0.10"
\* Variant: the release is bumped and the version is left behind.
release_value_bumped == "0.11"

release_value == "0.10"
master_doc_value == "index"
extensions_value == <<>>
templates_path_value == <<"_templates">>
\* Variant: a pattern is listed a second time.
exclude_patterns_value_repeated == <<"_build", "Thumbs.db", ".DS_Store", "_build">>

exclude_patterns_value == <<"_build", "Thumbs.db", ".DS_Store">>
html_theme_value == "sphinx_rtd_theme"
html_static_path_value == <<"_static">>

\* r"formatcom=\scriptsize"
verboptions_value == "formatcom=\\scriptsize"

\* The entries of man_pages that follow the pgcopydb fork entry.
man_pages_tail(author) ==
    << <<"ref/pgcopydb_follow", "pgcopydb follow", "pgcopydb follow", <<author>>, 1>>,
       <<"ref/pgcopydb_snapshot", "pgcopydb snapshot", "pgcopydb snapshot", <<author>>, 1>>,
       <<"ref/pgcopydb_copy", "pgcopydb copy", "pgcopydb copy", <<author>>, 1>>,
       <<"ref/pgcopydb_dump", "pgcopydb dump", "pgcopydb dump", <<author>>, 1>>,
       <<"ref/pgcopydb_restore", "pgcopydb restore", "pgcopydb restore", <<author>>, 1>>,
       <<"ref/pgcopydb_list", "pgcopydb list", "pgcopydb list", <<author>>, 1>>,
       <<"ref/pgcopydb_stream", "pgcopydb stream", "pgcopydb stream", <<author>>, 1>> >>

\* Variant: the pgcopydb fork entry is a verbatim copy of the pgcopydb clone
\* entry.
man_pages_value_copied_entry(author) ==
    << <<"ref/pgcopydb", "pgcopydb", "pgcopydb", <<author>>, 1>>,
       <<"ref/pgcopydb_config", "pgcopydb", "pgcopydb", <<author>>, 5>>,
       <<"ref/pgcopydb_clone", "pgcopydb clone", "pgcopydb clone", <<author>>, 1>>,
       <<"ref/pgcopydb_clone", "pgcopydb clone", "pgcopydb clone", <<author>>, 1>> >>
    \o man_pages_tail(author)

\* Variant: the configuration file entry is left in section 1.
man_pages_value_config_in_1(author) ==
    << <<"ref/pgcopydb", "pgcopydb", "pgcopydb", <<author>>, 1>>,
       <<"ref/pgcopydb_config", "pgcopydb", "pgcopydb", <<author>>, 1>>,
       <<"ref/pgcopydb_clone", "pgcopydb clone", "pgcopydb clone", <<author>>, 1>>,
       <<"ref/pgcopydb_clone", "pgcopydb fork", "pgcopydb fork", <<author>>, 1>> >>
    \o man_pages_tail(author)

\* Variant: the pgcopydb clone command entry is put in section 5.
man_pages_value_command_in_5(author) ==
    << <<"ref/pgcopydb", "pgcopydb", "pgcopydb", <<author>>, 1>>,
       <<"ref/pgcopydb_config", "pgcopydb", "pgcopydb", <<author>>, 5>>,
       <<"ref/pgcopydb_clone", "pgcopydb clone", "pgcopydb clone", <<author>>, 5>>,
       <<"ref/pgcopydb_clone", "pgcopydb fork", "pgcopydb fork", <<author>>, 1>> >>
    \o man_pages_tail(author)

\* Variant: the pgcopydb fork entry keeps the description of the entry it was
\* copied from.
man_pages_value_stale_description(author) ==
    << <<"ref/pgcopydb", "pgcopydb", "pgcopydb", <<author>>, 1>>,
       <<"ref/pgcopydb_config", "pgcopydb", "pgcopydb", <<author>>, 5>>,
       <<"ref/pgcopydb_clone", "pgcopydb clone", "pgcopydb clone", <<author>>, 1>>,
       <<"ref/pgcopydb_clone", "pgcopydb fork", "pgcopydb clone", <<author>>, 1>> >>
    \o man_pages_tail(author)

\* The man_pages list display; author is the value the name author is bound
\* to when the display is evaluated.
man_pages_value(author) ==
    << <<"ref/pgcopydb", "pgcopydb", "pgcopydb", <<author>>, 1>>,
       <<"ref/pgcopydb_config", "pgcopydb", "pgcopydb", <<author>>, 5>>,
       <<"ref/pgcopydb_clone", "pgcopydb clone", "pgcopydb clone", <<author>>, 1>>,
       <<"ref/pgcopydb_clone", "pgcopydb fork", "pgcopydb fork", <<author>>, 1>>,
       <<"ref/pgcopydb_follow", "pgcopydb follow", "pgcopydb follow", <<author>>, 1>>,
       <<"ref/pgcopydb_snapshot", "pgcopydb snapshot", "pgcopydb snapshot", <<author>>, 1>>,
       <<"ref/pgcopydb_copy", "pgcopydb copy", "pgcopydb copy", <<author>>, 1>>,
       <<"ref/pgcopydb_dump", "pgcopydb dump", "pgcopydb dump", <<author>>, 1>>,
       <<"ref/pgcopydb_restore", "pgcopydb restore", "pgcopydb restore", <<author>>, 1>>,
       <<"ref/pgcopydb_list", "pgcopydb list", "pgcopydb list", <<author>>, 1>>,
       <<"ref/pgcopydb_stream", "pgcopydb stream", "pgcopydb stream", <<author>>, 1>> >>

\* Fields of a man_pages tuple:
\* (source start file, name, description, authors, manual section).
Doc(e) == e[1]
Name(e) == e[2]
Description(e) == e[3]
Authors(e) == e[4]
Section(e) == e[5]

(***************************************************************************)
(* Init                                                                    *)
(***************************************************************************)

\* The class attributes of PygmentsBridge before conf.py is loaded.
PygmentsBridgeBefore ==
    [html_formatter |-> "HtmlFormatter", latex_formatter |-> "LatexFormatter"]

NoHighlighter == [dest |-> "none", formatter |-> "none"]
NoFormatter == [cls |-> "none"]

Init ==
    /\ pc = "project"
    /\ conf = <<>>
    /\ PygmentsBridge = PygmentsBridgeBefore
    /\ builder = "none"
    /\ highlighter = NoHighlighter
    /\ formatter = NoFormatter
    /\ nblocks = 0
    /\ man_idx = 0
    /\ outdir = <<>>

(***************************************************************************)
(* Loading conf.py, statement by statement                                 *)
(***************************************************************************)

built == <<builder, highlighter, formatter, nblocks, man_idx, outdir>>

\* The assignment statement name = value, followed by statement next.
Assign(name, value, next) ==
    /\ conf' = Bind(conf, name, value)
    /\ pc' = next
    /\ UNCHANGED <<PygmentsBridge, built>>

AssignProject ==
    /\ pc = "project"
    /\ Assign("project", project_value, "copyright")

AssignCopyright ==
    /\ pc = "copyright"
    /\ Assign("copyright", copyright_value, "author")

AssignAuthor ==
    /\ pc = "author"
    /\ Assign("author", author_value, "version")

AssignVersion ==
    /\ pc = "version"
    /\ Assign("version", version_value, "release")

AssignRelease ==
    /\ pc = "release"
    /\ Assign("release", release_value, "master_doc")

AssignMasterDoc ==
    /\ pc = "master_doc"
    /\ Assign("master_doc", master_doc_value, "extensions")

AssignExtensions ==
    /\ pc = "extensions"
    /\ Assign("extensions", extensions_value, "templates_path")

AssignTemplatesPath ==
    /\ pc = "templates_path"
    /\ Assign("templates_path", templates_path_value, "exclude_patterns")

AssignExcludePatterns ==
    /\ pc = "exclude_patterns"
    /\ Assign("exclude_patterns", exclude_patterns_value, "html_theme")

AssignHtmlTheme ==
    /\ pc = "html_theme"
    /\ Assign("html_theme", html_theme_value, "html_static_path")

AssignHtmlStaticPath ==
    /\ pc = "html_static_path"
    /\ Assign("html_static_path", html_static_path_value, "import_PygmentsBridge")

\* from sphinx.highlighting import PygmentsBridge
ImportPygmentsBridge ==
    /\ pc = "import_PygmentsBridge"
    /\ Assign("PygmentsBridge", "PygmentsBridge", "import_LatexFormatter")

\* from pygments.formatters.latex import LatexFormatter
ImportLatexFormatter ==
    /\ pc = "import_LatexFormatter"
    /\ Assign("LatexFormatter", "LatexFormatter", "class_CustomLatexFormatter")

\* class CustomLatexFormatter(LatexFormatter): ...
DefineCustomLatexFormatter ==
    /\ pc = "class_CustomLatexFormatter"
    /\ "LatexFormatter" \in DOMAIN conf
    /\ Assign("CustomLatexFormatter", "CustomLatexFormatter", "patch")

\* Variant: the assignment patches the formatter of the html output mode.
PatchedBridge_html(bridge, cls) == [bridge EXCEPT !.html_formatter = cls]

\* Variant: the assignment patches the formatter of every output mode.
PatchedBridge_all(bridge, cls) == [a \in DOMAIN bridge |-> cls]

\* The class attributes of PygmentsBridge after
\* PygmentsBridge.latex_formatter = cls.
PatchedBridge(bridge, cls) == [bridge EXCEPT !.latex_formatter = cls]

\* PygmentsBridge.latex_formatter = CustomLatexFormatter
PatchLatexFormatter ==
    /\ pc = "patch"
    /\ {"PygmentsBridge", "CustomLatexFormatter"} \subseteq DOMAIN conf
    /\ PygmentsBridge' = PatchedBridge(PygmentsBridge, conf["CustomLatexFormatter"])
    /\ pc' = "man_pages"
    /\ UNCHANGED <<conf, built>>

\* man_pages = [ (..., [author], 1), ... ]
AssignManPages ==
    /\ pc = "man_pages"
    /\ "author" \in DOMAIN conf
    /\ Assign("man_pages", man_pages_value(conf["author"]), "done")

Load ==
    \/ AssignProject
    \/ AssignCopyright
    \/ AssignAuthor
    \/ AssignVersion
    \/ AssignRelease
    \/ AssignMasterDoc
    \/ AssignExtensions
    \/ AssignTemplatesPath
    \/ AssignExcludePatterns
    \/ AssignHtmlTheme
    \/ AssignHtmlStaticPath
    \/ ImportPygmentsBridge
    \/ ImportLatexFormatter
    \/ DefineCustomLatexFormatter
    \/ PatchLatexFormatter
    \/ AssignManPages

(***************************************************************************)
(* The formatter classes                                                   *)
(***************************************************************************)

\* Keyword options a caller may pass to a formatter constructor, and the
\* values each may take.
OptionKeys == {"verboptions", "commandprefix"}

OptionValues(k) ==
    IF k = "verboptions"
    THEN {"", "frame=single", "formatcom=\\footnotesize", verboptions_value}
    ELSE {"PY", "PYG"}

AllOptionValues == UNION {OptionValues(k) : k \in OptionKeys}

\* Every **options dict over OptionKeys.
Options ==
    UNION {{o \in [D -> AllOptionValues] : \A k \in D : o[k] \in OptionValues(k)} :
           D \in SUBSET OptionKeys}

\* HtmlFormatter(**options): keeps the options; it has no verboptions.
HtmlFormatter_init(options) ==
    [cls |-> "HtmlFormatter", options |-> options]

\* LatexFormatter.__init__(self, **options), the parent constructor called
\* at line 73: takes verboptions and commandprefix from the options, with
\* their defaults.
LatexFormatter_init(options) ==
    [cls |-> "LatexFormatter",
     options |-> options,
     verboptions |-> Get(options, "verboptions", ""),
     commandprefix |-> Get(options, "commandprefix", "PY")]

\* Variant: self.verboptions is assigned before the parent constructor runs,
\* which then sets it from the options.
CustomLatexFormatter_init_early(options) ==
    [LatexFormatter_init(options) EXCEPT !.cls = "CustomLatexFormatter"]

\* CustomLatexFormatter.__init__(self, **options): the parent constructor
\* runs first, then self.verboptions is assigned.
CustomLatexFormatter_init(options) ==
    [LatexFormatter_init(options) EXCEPT
        !.cls = "CustomLatexFormatter",
        !.verboptions = verboptions_value]

\* cls(**options)
New(cls, options) ==
    CASE cls = "HtmlFormatter" -> HtmlFormatter_init(options)
      [] cls = "LatexFormatter" -> LatexFormatter_init(options)
      [] cls = "CustomLatexFormatter" -> CustomLatexFormatter_init(options)

(***************************************************************************)
(* The build that consumes the loaded configuration                        *)
(***************************************************************************)

\* The output modes that highlight code through a PygmentsBridge.
Dests == {"html", "latex"}

\* PygmentsBridge(dest): the bridge takes the formatter class of its output
\* mode from the class attributes.
NewBridge(bridge, dest) ==
    [dest |-> dest,
     formatter |-> IF dest = "html" THEN bridge.html_formatter
                                    ELSE bridge.latex_formatter]

\* The generator starts the html or the latex builder, which creates its
\* highlighter.
StartHighlightingBuild ==
    /\ pc = "done"
    /\ builder = "none"
    /\ \E dest \in Dests :
        /\ builder' = dest
        /\ highlighter' = NewBridge(PygmentsBridge, dest)
    /\ UNCHANGED <<pc, conf, PygmentsBridge, formatter, nblocks, man_idx, outdir>>

\* The builder highlights one code block: the bridge builds a formatter of
\* its class from the options of the block.
HighlightBlock ==
    /\ builder \in Dests
    /\ nblocks < MaxBlocks
    /\ \E options \in Options :
        formatter' = New(highlighter.formatter, options)
    /\ nblocks' = nblocks + 1
    /\ UNCHANGED <<pc, conf, PygmentsBridge, builder, highlighter, man_idx, outdir>>

\* The generator starts the man builder.
StartManBuild ==
    /\ pc = "done"
    /\ builder = "none"
    /\ builder' = "man"
    /\ UNCHANGED <<pc, conf, PygmentsBridge, highlighter, formatter, nblocks,
                   man_idx, outdir>>

\* The file a manual page is written to: "<name>.<section>".
TargetName(e) == Name(e) \o "." \o ToString(Section(e))

\* Writing the file t in directory dir with the page of document doc: a file
\* of that name already there is overwritten.
WriteFile(dir, t, doc) ==
    [f \in DOMAIN dir \cup {t} |-> IF f = t THEN doc ELSE dir[f]]

\* The man builder emits the manual page of the next entry of man_pages.
WriteManPage ==
    /\ builder = "man"
    /\ man_idx < Len(conf["man_pages"])
    /\ LET e == conf["man_pages"][man_idx + 1]
       IN  outdir' = WriteFile(outdir, TargetName(e), Doc(e))
    /\ man_idx' = man_idx + 1
    /\ UNCHANGED <<pc, conf, PygmentsBridge, builder, highlighter, formatter,
                   nblocks>>

Build ==
    \/ StartHighlightingBuild
    \/ HighlightBlock
    \/ StartManBuild
    \/ WriteManPage

Next == Load \/ Build

Spec == Init /\ [][Next]_vars

(***************************************************************************)
(* Properties                                                              *)
(***************************************************************************)

Bound(name) == name \in DOMAIN conf

\* The set of elements of a list.
Range(s) == {s[i] : i \in DOMAIN s}

\* The i-th character of the string p.
Char(p, i) == SubSeq(p, i, i)

\* From position i on, every bracket expression of the glob p is closed: a
\* "[" is followed, after an optional "!" and an optional literal "]", by a
\* "]".
RECURSIVE BracketsClosed(_, _)
BracketsClosed(p, i) ==
    IF i > Len(p) THEN TRUE
    ELSE IF Char(p, i) # "[" THEN BracketsClosed(p, i + 1)
    ELSE LET j0 == i + 1
             j1 == IF j0 <= Len(p) /\ Char(p, j0) = "!" THEN j0 + 1 ELSE j0
             j2 == IF j1 <= Len(p) /\ Char(p, j1) = "]" THEN j1 + 1 ELSE j1
             closers == {k \in j2..Len(p) : Char(p, k) = "]"}
         IN  /\ closers # {}
             /\ BracketsClosed(p,
                    (CHOOSE k \in closers : \A m \in closers : k <= m) + 1)

\* A syntactically valid glob: not empty, every bracket expression closed.
ValidGlob(p) == Len(p) > 0 /\ BracketsClosed(p, 1)

\* C1: every entry of man_pages has section 1 or 5, and within a section no
\* two entries have the same (source document, command name) pair.
ManPagesSectionsAndPairs ==
    Bound("man_pages") =>
        LET mp == conf["man_pages"]
        IN  /\ \A i \in DOMAIN mp : Section(mp[i]) \in {1, 5}
            /\ \A i, j \in DOMAIN mp :
                (i # j /\ Section(mp[i]) = Section(mp[j]))
                    => <<Doc(mp[i]), Name(mp[i])>> # <<Doc(mp[j]), Name(mp[j])>>

\* The table is bound, and holds both sections, two entries of one section
\* with the same document, and two entries with the same name.
ManPagesSectionsAndPairsWitness ==
    /\ Bound("man_pages")
    /\ LET mp == conf["man_pages"]
       IN  /\ {Section(mp[i]) : i \in DOMAIN mp} = {1, 5}
           /\ \E i, j \in DOMAIN mp :
                /\ i # j
                /\ Section(mp[i]) = Section(mp[j])
                /\ Doc(mp[i]) = Doc(mp[j])
           /\ \E i, j \in DOMAIN mp : i # j /\ Name(mp[i]) = Name(mp[j])

\* C2, as stated: once conf.py is loaded, the state of the documentation
\* generator is what it was before the load.
LoadIsSideEffectFree ==
    pc = "done" => PygmentsBridge = PygmentsBridgeBefore

\* C2, amended: the load changes exactly one thing outside the module's own
\* variables, the attribute latex_formatter of PygmentsBridge, which becomes
\* CustomLatexFormatter; the other attributes of PygmentsBridge keep their
\* values, and until the load ends no build has started and no page is
\* written.
LoadPatchesOnlyLatexFormatter ==
    /\ DOMAIN PygmentsBridge = DOMAIN PygmentsBridgeBefore
    /\ \A a \in DOMAIN PygmentsBridge \ {"latex_formatter"} :
        PygmentsBridge[a] = PygmentsBridgeBefore[a]
    /\ pc = "done" => PygmentsBridge.latex_formatter = "CustomLatexFormatter"
    /\ pc # "done" =>
        /\ builder = "none"
        /\ highlighter = NoHighlighter
        /\ formatter = NoFormatter
        /\ outdir = <<>>

\* The load has ended and PygmentsBridge is not what it was.
LoadPatchesOnlyLatexFormatterWitness ==
    /\ pc = "done"
    /\ PygmentsBridge # PygmentsBridgeBefore
    /\ PygmentsBridge.html_formatter = PygmentsBridgeBefore.html_formatter

\* C3: the man builder writes one page per entry: after n entries there are
\* n files, each entry processed so far has its own file holding its
\* document, and no two entries of the table have the same file name.
OneManPagePerEntry ==
    /\ Bound("man_pages") =>
        \A i, j \in DOMAIN conf["man_pages"] :
            i # j => TargetName(conf["man_pages"][i]) # TargetName(conf["man_pages"][j])
    /\ Cardinality(DOMAIN outdir) = man_idx
    /\ \A i \in 1..man_idx :
        /\ TargetName(conf["man_pages"][i]) \in DOMAIN outdir
        /\ outdir[TargetName(conf["man_pages"][i])] = Doc(conf["man_pages"][i])

\* The whole table is written: eleven pages, among them the two of document
\* ref/pgcopydb_clone and the two named pgcopydb.
OneManPagePerEntryWitness ==
    /\ builder = "man"
    /\ man_idx = Len(conf["man_pages"])
    /\ man_idx = 11
    /\ {"pgcopydb.1", "pgcopydb.5", "pgcopydb clone.1", "pgcopydb fork.1"}
            \subseteq DOMAIN outdir
    /\ outdir["pgcopydb clone.1"] = outdir["pgcopydb fork.1"]

\* C4: project, author, version and release are not empty, and version
\* equals release.
MetadataNonEmptyAndConsistent ==
    /\ \A n \in {"project", "author", "version", "release"} :
        Bound(n) => Len(conf[n]) > 0
    /\ Bound("release") => conf["version"] = conf["release"]
    /\ pc = "done" => {"project", "author", "version", "release"} \subseteq DOMAIN conf

\* The load has ended with the four names bound.
MetadataNonEmptyAndConsistentWitness ==
    /\ pc = "done"
    /\ conf["project"] = "pgcopydb"
    /\ conf["author"] = "Dimitri Fontaine"
    /\ conf["version"] = "0.10"
    /\ conf["release"] = "0.10"

\* The documents of man_pages that describe a file format.
FileFormatDocs == {"ref/pgcopydb_config"}

\* The documents of man_pages that describe a command.
CommandDocs ==
    {"ref/pgcopydb", "ref/pgcopydb_clone", "ref/pgcopydb_follow",
     "ref/pgcopydb_snapshot", "ref/pgcopydb_copy", "ref/pgcopydb_dump",
     "ref/pgcopydb_restore", "ref/pgcopydb_list", "ref/pgcopydb_stream"}

\* C5: an entry has section 5 exactly when its document describes a file
\* format, and every entry whose document describes a command has section 1.
SectionsFollowConvention ==
    Bound("man_pages") =>
        \A e \in Range(conf["man_pages"]) :
            /\ Section(e) = 5 <=> Doc(e) \in FileFormatDocs
            /\ Doc(e) \in CommandDocs => Section(e) = 1
            /\ Doc(e) \in FileFormatDocs \cup CommandDocs

\* The table is bound and holds a file format entry and command entries.
SectionsFollowConventionWitness ==
    /\ Bound("man_pages")
    /\ \E e \in Range(conf["man_pages"]) :
        Doc(e) \in FileFormatDocs /\ Section(e) = 5
    /\ CommandDocs \subseteq {Doc(e) : e \in Range(conf["man_pages"])}

\* C6: the override reaches the latex output mode only: html_formatter is
\* never changed, a latex build highlights with CustomLatexFormatter, and an
\* html build highlights with the HtmlFormatter it had before the load.
OverrideInLatexOnly ==
    /\ PygmentsBridge.html_formatter = "HtmlFormatter"
    /\ builder = "latex" =>
        /\ highlighter.formatter = "CustomLatexFormatter"
        /\ formatter.cls \in {"none", "CustomLatexFormatter"}
    /\ builder = "html" =>
        /\ highlighter.formatter = "HtmlFormatter"
        /\ formatter.cls \in {"none", "HtmlFormatter"}
        /\ "verboptions" \notin DOMAIN formatter
    /\ builder = "man" => formatter = NoFormatter

\* An html build has highlighted a block after the patch of line 77.
OverrideInLatexOnlyWitness ==
    /\ PygmentsBridge.latex_formatter = "CustomLatexFormatter"
    /\ builder = "html"
    /\ formatter.cls = "HtmlFormatter"
    /\ nblocks > 0

\* C8: exclude_patterns has no duplicate entry and each of its patterns is
\* a syntactically valid glob.
ExcludePatternsDistinctAndValid ==
    Bound("exclude_patterns") =>
        LET ep == conf["exclude_patterns"]
        IN  /\ \A i, j \in DOMAIN ep : i # j => ep[i] # ep[j]
            /\ \A i \in DOMAIN ep : ValidGlob(ep[i])

\* The list is bound and holds its three patterns.
ExcludePatternsDistinctAndValidWitness ==
    /\ Bound("exclude_patterns")
    /\ Len(conf["exclude_patterns"]) = 3
    /\ Range(conf["exclude_patterns"]) = {"_build", "Thumbs.db", ".DS_Store"}

\* C9: whatever options a CustomLatexFormatter is built from, its
\* verboptions is formatcom=\scriptsize, and its other attributes are those
\* the parent constructor set from the options.
VerboptionsReplaced ==
    formatter.cls = "CustomLatexFormatter" =>
        /\ formatter.verboptions = "formatcom=\\scriptsize"
        /\ formatter.commandprefix = Get(formatter.options, "commandprefix", "PY")

\* A CustomLatexFormatter was built from options that supply another
\* verboptions.
VerboptionsReplacedWitness ==
    /\ formatter.cls = "CustomLatexFormatter"
    /\ "verboptions" \in DOMAIN formatter.options
    /\ formatter.options["verboptions"] = "frame=single"
    /\ formatter.verboptions = "formatcom=\\scriptsize"

\* C10: every entry of man_pages has the author list [author], with author
\* the value bound by line 22 and still bound, and a description equal to
\* its name.
AuthorsAndDescriptions ==
    Bound("man_pages") =>
        /\ conf["author"] = "Dimitri Fontaine"
        /\ \A e \in Range(conf["man_pages"]) :
            /\ Authors(e) = <<conf["author"]>>
            /\ Description(e) = Name(e)

\* The table is bound, with the eleven entries of one author.
AuthorsAndDescriptionsWitness ==
    /\ Bound("man_pages")
    /\ Len(conf["man_pages"]) = 11
    /\ {Authors(e) : e \in Range(conf["man_pages"])} = {<<"Dimitri Fontaine">>}
    /\ Cardinality({Description(e) : e \in Range(conf["man_pages"])}) = 10
====
